---------------------------- MODULE Spec2Model ----------------------------
(***************************************************************************)
(* A model of the passport-photo pipeline of src/web.py: the background    *)
(* remover, the face locator, the canvas compositor and the orchestrator   *)
(* process_image.                                                          *)
(*                                                                         *)
(* Conventions.  A detector confidence is an integer number of hundredths  *)
(* (0.8 is 80, 0.81 is 81).  An image is a record                          *)
(*   [src, mode, w, h, px, faces]                                          *)
(* where src names the photo it derives from, px is a sample of its        *)
(* pixels, each [rgb |-> <<r,g,b>>, a |-> alpha], and faces is what the    *)
(* MTCNN detector returns for it (a list of [box |-> <<x,y,w,h>>,          *)
(* confidence |-> c]).  Python's None is the string "None".  A function    *)
(* that may raise returns a record whose field raised is None or the       *)
(* class of the exception.                                                 *)
(***************************************************************************)
EXTENDS Integers, Sequences, FiniteSets, TLC

VARIABLES
    REMBG_AVAILABLE,  \* module flag set by the optional import (lines 8-15)
    MTCNN_AVAILABLE,  \* module flag set by the same import
    masked,           \* the content of the scratch file masked/img_maske.png
    outfile,          \* the content of the file at output_path
    inv,              \* per invocation of process_image: its locals
    call              \* one call of a pipeline function: arguments and result

vars == <<REMBG_AVAILABLE, MTCNN_AVAILABLE, masked, outfile, inv, call>>

None == "None"
Absent == [src |-> "absent"]    \* a file that does not exist

Max(a, b) == IF a >= b THEN a ELSE b
Min(a, b) == IF a <= b THEN a ELSE b

(***************************************************************************)
(* Bounds of the enumerated inputs.                                        *)
(***************************************************************************)
MaxDim == 3      \* source images of the face-locator calls are 1..MaxDim wide and high
MaxOut == 2      \* a detection box may start up to MaxOut pixels outside the image
MaxBox == 3      \* a detection box is 1..MaxBox wide and high
MaxSrc == 5      \* source images of the resize calls are 1..MaxSrc wide and high
MaxTarget == 4   \* target sizes of the resize calls are 1..MaxTarget wide and high
MaxScaled == 5   \* scaled sizes of the paste-offset calls are 0..MaxScaled
MaxPix == 2      \* sampled pixels of a foreground in the composition calls
MaxBatch == 3    \* items of a batch given to process_image
MaxRaceBatch == 1 \* items of each batch of two concurrent invocations

(***************************************************************************)
(* Face locator: detect_face_and_crop, lines 46-76.                        *)
(***************************************************************************)
confidence == 80   \* line 61: confidence = 0.8, in hundredths

\* int(w * 0.9) for w >= 0 (lines 65-66)
pad(w) == (w * 9) \div 10

\* lines 62: faces and faces[0]['confidence'] > confidence
accepted_at_threshold(faces) == faces # <<>> /\ faces[1].confidence >= confidence
accepted(faces) == faces # <<>> /\ faces[1].confidence > confidence

\* lines 64-70: the crop bounds <<lower_x, lower_y, upper_x, upper_y>>
crop_box(W, H, box) ==
    LET x == box[1]
        y == box[2]
        w == box[3]
        h == box[4]
        h_pad == pad(h)
        w_pad == pad(w)
        lower_y == Max(0, y - h_pad)
        upper_y == Min(H, y + h + h_pad)
        lower_x == Max(0, x - w_pad)
        upper_x == Min(W, x + w + w_pad)
    IN  <<lower_x, lower_y, upper_x, upper_y>>

\* Image.crop (line 72): the region of the box; an empty or inverted box
\* gives an image of width or height 0.
crop(img, b) ==
    [img EXCEPT !.w = Max(0, b[3] - b[1]), !.h = Max(0, b[4] - b[2])]

\* Image.convert("RGBA") (lines 50, 53)
convert_RGBA(img) == [img EXCEPT !.mode = "RGBA"]

\* detect_face_and_crop(img_path): is_str is isinstance(img_path, str), img
\* the image Image.open(img_path) gives.  The result is [ret |-> None] or
\* [ret |-> "image", image |-> ..., box |-> the crop bounds used or None].
detect_face_and_crop(mtcnn, is_str, img) ==
    IF ~mtcnn
    THEN [ret |-> "image", image |-> convert_RGBA(img), box |-> None]
    ELSE IF is_str
         THEN LET foreground_img == convert_RGBA(img)
                  faces == foreground_img.faces
              IN  IF accepted(faces)
                  THEN LET b == crop_box(foreground_img.w, foreground_img.h,
                                         faces[1].box)
                       IN  [ret |-> "image", image |-> crop(foreground_img, b),
                            box |-> b]
                  ELSE [ret |-> None, image |-> None, box |-> None]
         ELSE [ret |-> None, image |-> None, box |-> None]


(***************************************************************************)
(* Canvas compositor: resize_and_center_image, lines 78-96.                *)
(***************************************************************************)
\* Whether the double W / H is the exact quotient: the reduced denominator
\* is a power of two.
RECURSIVE odd_part(_)
odd_part(n) == IF n % 2 = 0 THEN odd_part(n \div 2) ELSE n
exact_ratio(W, H) == W % odd_part(H) = 0

\* int() of a double product or quotient whose exact value is num / den
\* (num >= 0, den > 0) and one of whose operands is the double W / H.  The
\* exact value differs from every integer by at least 1 / den unless it is
\* one, so rounding shows only there: then the double may fall just below
\* the integer and int() gives one less (ulp = 1) or not (ulp = 0).
float_int(num, den, W, H, ulp) ==
    IF num % den = 0 /\ ~exact_ratio(W, H) /\ num > 0
    THEN (num \div den) - ulp
    ELSE num \div den

\* line 82: img_aspect_ratio > target_aspect_ratio, both positive quotients
\* of integers, rounded monotonically
wider_flipped(W, H, tw, th) == W * th < tw * H
wider(W, H, tw, th) == W * th > tw * H

\* lines 92-93: (target - new) // 2, Python's floor division
paste_offset_undivided(target, new) == target - new
paste_offset(target, new) == (target - new) \div 2

\* (a + 128 + ((a + 128) >> 8)) >> 8: Pillow's rounded division by 255
div255(a) == (((a + 128) \div 256) + a + 128) \div 256

\* Pillow's blend of one channel under an 8-bit mask: the mask's share of
\* in2 over in1
blend(mask, in1, in2) == div255(in1 * (255 - mask) + in2 * mask)

\* line 94: new_img.paste(resized_img, ..., resized_img) on the transparent
\* canvas (0, 0, 0, 0): every channel, alpha too, blended under the alpha
paste_self(px) ==
    [i \in 1..Len(px) |->
       [rgb |-> [c \in 1..3 |-> blend(px[i].a, 0, px[i].rgb[c])],
        a |-> blend(px[i].a, 0, px[i].a)]]

\* resize_and_center_image(img, target_size); ulp is the rounding of the one
\* double multiplication or division (line 84 or 87).
resize_and_center_image(img, target_size, ulp) ==
    LET tw == target_size[1]
        th == target_size[2]
    IN  IF img.h = 0 \/ th = 0                            \* lines 79, 80
        THEN [raised |-> "ZeroDivisionError"]
        ELSE IF ~wider(img.w, img.h, tw, th) /\ img.w = 0  \* line 87
        THEN [raised |-> "ZeroDivisionError"]
        ELSE
        LET wide == wider(img.w, img.h, tw, th)
            new_height == IF wide THEN th
                          ELSE float_int(tw * img.h, img.w, img.w, img.h, ulp)
            new_width == IF wide
                         THEN float_int(th * img.w, img.h, img.w, img.h, ulp)
                         ELSE tw
        IN  [raised |-> None,
             wide |-> wide,
             new_width |-> new_width,
             new_height |-> new_height,
             paste_x |-> paste_offset(tw, new_width),
             paste_y |-> paste_offset(th, new_height),
             image |-> [img EXCEPT !.mode = "RGBA", !.w = tw, !.h = th,
                                   !.px = paste_self(img.px)]]

(***************************************************************************)
(* Canvas compositor: add_background and add_background1, lines 98-107.    *)
(***************************************************************************)
HexDigits ==
    [c \in {"0", "1", "2", "3", "4", "5", "6", "7", "8", "9",
            "a", "b", "c", "d", "e", "f"} |->
       CASE c = "0" -> 0 [] c = "1" -> 1 [] c = "2" -> 2 [] c = "3" -> 3
         [] c = "4" -> 4 [] c = "5" -> 5 [] c = "6" -> 6 [] c = "7" -> 7
         [] c = "8" -> 8 [] c = "9" -> 9 [] c = "a" -> 10 [] c = "b" -> 11
         [] c = "c" -> 12 [] c = "d" -> 13 [] c = "e" -> 14 [] c = "f" -> 15]

\* ImageColor.getrgb of "#rrggbb", the string given as its characters
getrgb(color) ==
    LET v(i) == 16 * HexDigits[color[i]] + HexDigits[color[i + 1]]
    IN  <<v(2), v(4), v(6)>>

\* background.paste(foreground, (0, 0), foreground) on an opaque pixel bg:
\* the foreground's alpha is the mask
paste_pixel_unmasked(bg, fg) == fg.rgb
paste_pixel(bg, fg) == [i \in 1..3 |-> blend(fg.a, bg[i], fg.rgb[i])]

\* add_background(foreground, background_color, target_size)
add_background(foreground, background_color, target_size) ==
    LET c == getrgb(background_color)
    IN  [foreground EXCEPT
           !.mode = "RGB",
           !.w = target_size[1],
           !.h = target_size[2],
           !.px = [i \in 1..Len(foreground.px) |->
                     [rgb |-> paste_pixel(c, foreground.px[i]), a |-> None]]]

\* add_background1(foreground, background_file, target_size): picture is the
\* image at bg/<background_file>, or Absent
add_background1(foreground, picture, target_size) ==
    IF picture = Absent
    THEN [raised |-> "FileNotFoundError"]
    ELSE [raised |-> None,
          image |-> [foreground EXCEPT
             !.mode = "RGB",
             !.w = target_size[1],
             !.h = target_size[2],
             !.px = [i \in 1..Len(foreground.px) |->
                       [rgb |-> paste_pixel(picture.rgb, foreground.px[i]),
                        a |-> None]]]]


(***************************************************************************)
(* The files and inputs of the enumerated runs.                            *)
(***************************************************************************)
Face(x, y, w, h, c) == [box |-> <<x, y, w, h>>, confidence |-> c]
Opaque(rgb) == [rgb |-> rgb, a |-> 255]
Clear == [rgb |-> <<0, 0, 0>>, a |-> 0]
Soft(rgb) == [rgb |-> rgb, a |-> 128]

\* What each photo's bytes decode to once matted: px are pixels of the matte
\* rembg returns, faces what MTCNN finds in it, matting whether rembg
\* returns at all (FALSE: the model raises).
Photo(src, w, h, rgb, faces, matting) ==
    [src |-> src, mode |-> "RGB", w |-> w, h |-> h,
     px |-> <<Clear, Soft(rgb), Opaque(rgb)>>, faces |-> faces,
     matting |-> matting]

Photos ==
    [anna   |-> Photo("anna", 40, 60, <<200, 150, 120>>,
                      <<Face(10, 12, 16, 20, 99)>>, TRUE),
     ben    |-> Photo("ben", 64, 48, <<90, 60, 40>>,
                      <<Face(20, 10, 12, 14, 95), Face(2, 2, 5, 5, 40)>>, TRUE),
     cara   |-> Photo("cara", 30, 30, <<250, 220, 200>>,
                      <<Face(0, 4, 10, 10, 81)>>, TRUE),
     wall   |-> Photo("wall", 50, 50, <<10, 10, 10>>, <<>>, TRUE),
     sliver |-> Photo("sliver", 20, 20, <<70, 70, 70>>,
                      <<Face(5, 5, 6, 0, 90)>>, TRUE),
     broken |-> Photo("broken", 1, 1, <<0, 0, 0>>, <<>>, FALSE)]

\* original/: file name -> photo
OriginalDir ==
    [n \in {"anna.jpg", "wall.jpg", "sliver.jpg", "broken.jpg"} |->
       CASE n = "anna.jpg" -> "anna" [] n = "wall.jpg" -> "wall"
         [] n = "sliver.jpg" -> "sliver" [] n = "broken.jpg" -> "broken"]

\* bg/: file name (its characters) -> picture
BgDir ==
    [n \in {<<"s", "e", "a">>} |-> [rgb |-> <<0, 90, 200>>]]

\* An input of remove_background and process_image.  is_str: a str; has_name
\* and has_read: the object's attributes; data: the photo read() returns;
\* disk: what the filesystem does when this item's output is written ("ok",
\* "refused": the open fails, "torn": the write fails after the open).
StrInput(name) ==
    [is_str |-> TRUE, has_name |-> FALSE, has_read |-> FALSE, name |-> name,
     data |-> None, disk |-> "ok"]
ObjInput(name, has_name, has_read, data, disk) ==
    [is_str |-> FALSE, has_name |-> has_name, has_read |-> has_read,
     name |-> name, data |-> data, disk |-> disk]

Upload(name, data) == ObjInput(name, TRUE, TRUE, data, "ok")
BytesIO(data) == ObjInput(None, FALSE, TRUE, data, "ok")   \* read, no name
PathLike(name) == ObjInput(name, TRUE, FALSE, None, "ok")   \* name, no read
Number == ObjInput(None, FALSE, FALSE, None, "ok")          \* neither

(***************************************************************************)
(* Background remover: remove_background, lines 20-44.                     *)
(***************************************************************************)
scratch_path == StrInput("masked/img_maske.png")
NoValue == [none |-> TRUE]     \* no value: the call raised

\* rembg's remove (line 39) and the decoding of its bytes
remove(photo) == [k \in {"src", "mode", "w", "h", "px", "faces"} |->
                    IF k = "mode" THEN "RGBA" ELSE Photos[photo][k]]

\* remove_background(input_file) with the scratch file holding scratch.
\* [raised, ret, masked]: the exception or None, the value returned, the
\* scratch file afterwards.
remove_background_stale(rembg, input_file, scratch) ==
    [raised |-> None, ret |-> scratch_path, masked |-> scratch]
remove_background_readable(rembg, input_file, scratch) ==
    IF ~rembg
    THEN [raised |-> None, ret |-> input_file, masked |-> scratch]
    ELSE IF input_file.is_str /\ input_file.name \notin DOMAIN OriginalDir
    THEN [raised |-> "FileNotFoundError", ret |-> NoValue, masked |-> scratch]
    ELSE IF ~input_file.is_str /\ ~input_file.has_read
    THEN [raised |-> "ValueError", ret |-> NoValue, masked |-> scratch]
    ELSE LET input_img == IF input_file.is_str
                          THEN OriginalDir[input_file.name]
                          ELSE input_file.data
         IN  IF ~Photos[input_img].matting
             THEN [raised |-> "Exception", ret |-> NoValue, masked |-> scratch]
             ELSE [raised |-> None, ret |-> scratch_path,
                   masked |-> remove(input_img)]
remove_background(rembg, input_file, scratch) ==
    IF ~rembg                                               \* lines 21-23
    THEN [raised |-> None, ret |-> input_file, masked |-> scratch]
    ELSE
    LET nofile == input_file.is_str /\ input_file.name \notin DOMAIN OriginalDir
        input_img == IF input_file.is_str THEN OriginalDir[input_file.name]
                     ELSE input_file.data
    IN  IF nofile                                            \* lines 27-28
        THEN [raised |-> "FileNotFoundError", ret |-> NoValue, masked |-> scratch]
        ELSE IF ~input_file.is_str /\ ~input_file.has_name   \* lines 33-34
        THEN [raised |-> "ValueError", ret |-> NoValue, masked |-> scratch]
        ELSE IF ~input_file.is_str /\ ~input_file.has_read   \* line 32
        THEN [raised |-> "AttributeError", ret |-> NoValue, masked |-> scratch]
        ELSE IF ~Photos[input_img].matting                   \* line 39
        THEN [raised |-> "Exception", ret |-> NoValue, masked |-> scratch]
        ELSE [raised |-> None, ret |-> scratch_path,         \* lines 41-44
              masked |-> remove(input_img)]


(***************************************************************************)
(* Single calls of the pipeline's functions on enumerated arguments.       *)
(***************************************************************************)
Boxes ==
    {Face(x, y, w, h, 81) : x \in (0 - MaxOut)..(MaxDim + MaxOut),
                            y \in (0 - MaxOut)..(MaxDim + MaxOut),
                            w \in 1..MaxBox, h \in 1..MaxBox}
Scored == {Face(0, 0, 1, 1, c) : c \in {0, 79, 80, 81, 100}}
FaceLists ==
    {<<>>} \cup {<<f>> : f \in Boxes \cup Scored}
           \cup {<<f, g>> : f \in Scored, g \in {Face(0, 0, 1, 1, 100),
                                                 Face(1, 1, 1, 1, 0)}}

Plain(w, h, px, faces) ==
    [src |-> "arg", mode |-> "RGBA", w |-> w, h |-> h, px |-> px,
     faces |-> faces]

DetectCalls ==
    {[fn |-> "detect_face_and_crop", is_str |-> TRUE,
      img |-> Plain(w, h, <<>>, faces), done |-> FALSE, result |-> None] :
        w \in 1..MaxDim, h \in 1..MaxDim, faces \in FaceLists}
    \cup
    {[fn |-> "detect_face_and_crop", is_str |-> FALSE,
      img |-> Plain(1, 1, <<>>, <<f>>), done |-> FALSE, result |-> None] :
        f \in Scored}

TargetSizes == ((1..MaxTarget) \X (1..MaxTarget)) \cup {<<350, 450>>}

ResizeCalls ==
    {[fn |-> "resize_and_center_image", img |-> Plain(w, h, <<>>, <<>>),
      target_size |-> t, ulp |-> u, done |-> FALSE, result |-> None] :
        w \in 0..MaxSrc, h \in 0..MaxSrc, t \in TargetSizes, u \in 0..1}

PasteCalls ==
    {[fn |-> "paste_offset", target |-> t, new |-> n, done |-> FALSE,
      result |-> None] : t \in 0..MaxTarget, n \in 0..MaxScaled}

Colors ==
    {<<"#", "f", "f", "0", "0", "0", "0">>,
     <<"#", "f", "f", "f", "f", "f", "f">>,
     <<"#", "0", "a", "6", "4", "c", "8">>}

Pixels ==
    {Clear, [rgb |-> <<0, 0, 255>>, a |-> 0], Soft(<<0, 0, 255>>),
     Opaque(<<0, 0, 255>>), Opaque(<<255, 0, 0>>)}

PixelRows == UNION {[1..n -> Pixels] : n \in 1..MaxPix}

ComposeCalls ==
    {[fn |-> "add_background", foreground |-> Plain(Len(px), 1, px, <<>>),
      background_color |-> c, target_size |-> <<Len(px), 1>>,
      done |-> FALSE, result |-> None] : px \in PixelRows, c \in Colors}

Inputs ==
    {StrInput("anna.jpg"), StrInput("gone.jpg"), StrInput("broken.jpg"),
     Upload("ben.png", "ben"), Upload("bad.png", "broken"),
     BytesIO("cara"), PathLike("cara.jpg"), Number}

RemoveCalls ==
    {[fn |-> "remove_background", input_file |-> i, done |-> FALSE,
      result |-> None, before |-> None] : i \in Inputs}

Procs == {"u1", "u2"}     \* the sessions that may call process_image
Idle == [pc |-> "idle"]

\* The scratch file as an earlier run may have left it
Scratches == {Absent, remove("cara")}

InitPure ==
    /\ REMBG_AVAILABLE \in BOOLEAN
    /\ MTCNN_AVAILABLE = REMBG_AVAILABLE       \* lines 11-15: set together
    /\ masked \in Scratches
    /\ outfile = Absent
    /\ inv = [p \in Procs |-> Idle]
    /\ call \in DetectCalls \cup ResizeCalls \cup PasteCalls
                \cup ComposeCalls \cup RemoveCalls

Pending(fn) == call.fn = fn /\ ~call.done

CallDetect ==
    /\ Pending("detect_face_and_crop")
    /\ call' = [call EXCEPT !.done = TRUE,
                  !.result = detect_face_and_crop(MTCNN_AVAILABLE,
                                                  call.is_str, call.img)]
    /\ UNCHANGED <<REMBG_AVAILABLE, MTCNN_AVAILABLE, masked, outfile, inv>>

CallResize ==
    /\ Pending("resize_and_center_image")
    /\ call' = [call EXCEPT !.done = TRUE,
                  !.result = resize_and_center_image(call.img,
                                                     call.target_size, call.ulp)]
    /\ UNCHANGED <<REMBG_AVAILABLE, MTCNN_AVAILABLE, masked, outfile, inv>>

CallPasteOffset ==
    /\ Pending("paste_offset")
    /\ call' = [call EXCEPT !.done = TRUE,
                  !.result = paste_offset(call.target, call.new)]
    /\ UNCHANGED <<REMBG_AVAILABLE, MTCNN_AVAILABLE, masked, outfile, inv>>

CallAddBackground ==
    /\ Pending("add_background")
    /\ call' = [call EXCEPT !.done = TRUE,
                  !.result = add_background(call.foreground,
                                            call.background_color,
                                            call.target_size)]
    /\ UNCHANGED <<REMBG_AVAILABLE, MTCNN_AVAILABLE, masked, outfile, inv>>

CallRemoveBackground ==
    LET r == remove_background(REMBG_AVAILABLE, call.input_file, masked)
    IN  /\ Pending("remove_background")
        /\ call' = [call EXCEPT !.done = TRUE, !.before = masked,
                      !.result = [raised |-> r.raised, ret |-> r.ret]]
        /\ masked' = r.masked
        /\ UNCHANGED <<REMBG_AVAILABLE, MTCNN_AVAILABLE, outfile, inv>>

NextPure ==
    \/ CallDetect
    \/ CallResize
    \/ CallPasteOffset
    \/ CallAddBackground
    \/ CallRemoveBackground

SpecPure == InitPure /\ [][NextPure]_vars


(***************************************************************************)
(* Properties of the single calls.                                         *)
(***************************************************************************)
Returned(fn) == call.fn = fn /\ call.done

\* The detector ran: MTCNN is there and the path is a str (lines 48, 52)
Detected == Returned("detect_face_and_crop") /\ MTCNN_AVAILABLE /\ call.is_str

\* C4 (face acceptance): whenever the detector ran, detect_face_and_crop
\* returns an image if and only if the detector's list is non-empty and its
\* first element's confidence is strictly above 0.8 (so 0.80 gives None and
\* 0.81 an image), and the result is the one the first detection alone
\* gives: a later detection never changes it.
C4_FaceAcceptance ==
    Detected =>
        LET faces == call.img.faces
            first_only == [call.img EXCEPT !.faces = SubSeq(faces, 1, 1)]
        IN  /\ (call.result.ret = "image") <=>
                   (Len(faces) >= 1 /\ faces[1].confidence > 80)
            /\ (call.result.ret = None) <=>
                   (Len(faces) = 0 \/ faces[1].confidence <= 80)
            /\ Len(faces) >= 1 =>
                   LET alone == detect_face_and_crop(TRUE, TRUE, first_only)
                   IN  call.result.ret = alone.ret /\ call.result.box = alone.box

\* C4's case: a first detection of exactly 0.80 followed by one of 1.00 has
\* been rejected.
C4_Witness ==
    /\ Detected
    /\ Len(call.img.faces) = 2
    /\ call.img.faces[1].confidence = 80
    /\ call.img.faces[2].confidence = 100
    /\ call.result.ret = None

\* C5 (PaddedCrop invariant): for every image and every accepted detection
\* box, the crop bounds satisfy 0 <= lower_x <= upper_x <= W and
\* 0 <= lower_y <= upper_y <= H.
C5_PaddedCropInvariant ==
    (Detected /\ call.result.ret = "image") =>
        LET b == call.result.box
        IN  /\ 0 <= b[1] /\ b[1] <= b[3] /\ b[3] <= call.img.w
            /\ 0 <= b[2] /\ b[2] <= b[4] /\ b[4] <= call.img.h

\* C6 (fill resize): for every source image of positive width and height
\* and every target size, the call returns a canvas of exactly the target
\* size; when the image is relatively wider than the target the scaled
\* height is the target height and the scaled width at least the target
\* width, otherwise the scaled width is the target width.
C6_FillResize ==
    (Returned("resize_and_center_image") /\ call.img.w > 0 /\ call.img.h > 0) =>
        LET r == call.result
            tw == call.target_size[1]
            th == call.target_size[2]
            relatively_wider == call.img.w * th > tw * call.img.h
        IN  /\ r.raised = None
            /\ r.image.w = tw /\ r.image.h = th
            /\ relatively_wider => (r.new_height = th /\ r.new_width >= tw)
            /\ ~relatively_wider => r.new_width = tw
            /\ r.new_width >= tw \/ r.new_height >= th

\* C6's case: a relatively wider image whose scaled width, after the double
\* rounding took one pixel, is exactly the target width.
C6_Witness ==
    /\ Returned("resize_and_center_image")
    /\ call.img.w > 0 /\ call.img.h > 0
    /\ call.ulp = 1
    /\ call.img.w * call.target_size[2] > call.target_size[1] * call.img.h
    /\ (call.target_size[2] * call.img.w) % call.img.h = 0
    /\ call.result.new_width = call.target_size[1]
    /\ call.result.new_width < (call.target_size[2] * call.img.w) \div call.img.h

Abs(n) == IF n < 0 THEN 0 - n ELSE n

\* The margins (negative: overhangs) an offset leaves on the two sides
Balanced(target, new, offset) ==
    Abs(offset - (target - (offset + new))) <= 1

\* C7 (centering): for every scaled size and target size, the paste offset
\* leaves left and right margins (or overhangs) that differ by at most one
\* pixel, and likewise top and bottom.
C7_Centering ==
    /\ Returned("paste_offset") =>
           Balanced(call.target, call.new, call.result)
    /\ (Returned("resize_and_center_image") /\ call.result.raised = None) =>
           /\ Balanced(call.target_size[1], call.result.new_width,
                       call.result.paste_x)
           /\ Balanced(call.target_size[2], call.result.new_height,
                       call.result.paste_y)

\* C7's case: a scaled image three pixels wider than the canvas has been
\* given the offset -2.
C7_Witness ==
    /\ Returned("paste_offset")
    /\ call.target - call.new = 0 - 3
    /\ call.result = 0 - 2

\* The colour each background spec of the calls names
ColorNamed(c) ==
    CASE c = <<"#", "f", "f", "0", "0", "0", "0">> -> <<255, 0, 0>>
      [] c = <<"#", "f", "f", "f", "f", "f", "f">> -> <<255, 255, 255>>
      [] c = <<"#", "0", "a", "6", "4", "c", "8">> -> <<10, 100, 200>>

\* The result of add_background is an RGB image of the target size whose
\* pixels, wherever the foreground's alpha is one of alphas, have the
\* background colour
Opacity(alphas) ==
    Returned("add_background") =>
        LET out == call.result
            fg == call.foreground
        IN  /\ out.mode = "RGB"
            /\ out.w = call.target_size[1] /\ out.h = call.target_size[2]
            /\ \A i \in 1..Len(out.px) :
                   /\ DOMAIN out.px[i].rgb = 1..3
                   /\ out.px[i].a = None
                   /\ fg.px[i].a \in alphas =>
                          out.px[i].rgb = ColorNamed(call.background_color)

\* C8 as stated (composite opacity): the result of add_background has three
\* channels and no alpha, and every pixel outside the foreground's opaque
\* region (alpha below 255 there) equals the background colour.
C8_OutsideOpaqueRegion == Opacity(0..254)

\* C8 amended: the result has three channels and no alpha, and every pixel
\* where the foreground is fully transparent (alpha 0) equals the background
\* colour; a pixel of partial alpha is blended.
C8_CompositeOpacity == Opacity({0})

\* C8's case: a foreground with a fully transparent pixel that carries a
\* colour of its own, composited over #ff0000.
C8_Witness ==
    /\ Returned("add_background")
    /\ call.background_color = <<"#", "f", "f", "0", "0", "0", "0">>
    /\ \E i \in 1..Len(call.foreground.px) :
           /\ call.foreground.px[i] = [rgb |-> <<0, 0, 255>>, a |-> 0]
           /\ call.result.px[i].rgb = <<255, 0, 0>>
    /\ \E i \in 1..Len(call.foreground.px) : call.foreground.px[i].a = 255


\* The photo an input stands for
PhotoOfInput(input_file) ==
    IF input_file.is_str THEN OriginalDir[input_file.name]
    ELSE input_file.data

\* The cases of an input of remove_background
MissingFile(i) == i.is_str /\ i.name \notin DOMAIN OriginalDir
Readable(i) == ~i.is_str /\ i.has_read
Named(i) == ~i.is_str /\ i.has_name

target_size == <<350, 450>>     \* line 109: the default

\* Image.open of a photo's bytes
decode(photo) == [k \in {"src", "mode", "w", "h", "px", "faces"} |->
                    Photos[photo][k]]

\* final_img.save(output_file, format='jpeg') (line 137) on a file holding
\* file.  "refused": the open fails and the file is as it was.  "torn": the
\* write fails after the open truncated the file; Pillow then removes a
\* file the call created and leaves one that existed, truncated.
jpeg(image) == [src |-> image.src, format |-> "jpeg", w |-> image.w,
                h |-> image.h, px |-> image.px]
Torn == [src |-> "torn"]
save_once(file, image, disk) ==
    IF file = Absent THEN [raised |-> None, file |-> jpeg(image)]
    ELSE [raised |-> None, file |-> file]
save(file, image, disk) ==
    CASE disk = "ok"      -> [raised |-> None, file |-> jpeg(image)]
      [] disk = "refused" -> [raised |-> "OSError", file |-> file]
      [] disk = "torn"    -> [raised |-> "OSError",
                              file |-> IF file = Absent THEN Absent ELSE Torn]

\* lines 115, 146: the next item, or the return of the list
advance(rec) ==
    IF rec.i < Len(rec.input_files)
    THEN [rec EXCEPT !.pc = "remove", !.i = @ + 1]
    ELSE [rec EXCEPT !.pc = "returned", !.ret = "list"]

\* lines 141-144: both handlers report and fall through to the next item
on_exception_narrow(rec, raised) ==
    IF raised = "FileNotFoundError" THEN advance(rec)
    ELSE [rec EXCEPT !.pc = "returned", !.ret = "raised"]
on_exception(rec, raised) == advance(rec)

\* lines 125-127: return None
on_no_face_skip(rec) == advance(rec)
on_no_face(rec) == [rec EXCEPT !.pc = "returned", !.ret = None]

logged(rec, entry) == [rec EXCEPT !.log = Append(@, entry)]

\* line 130: isinstance(background, str) and background.startswith('#')
is_color(background) ==
    background.is_str /\ background.text # <<>> /\ background.text[1] = "#"

\* A call process_image(input_files, background, output_path): lines
\* 110-113 and the loop's first test
begin(input_files, background) ==
    LET list == IF input_files.is_list THEN input_files.items
                ELSE <<input_files.item>>
    IN  advance([pc |-> "remove", input_files |-> list,
                 background |-> background, i |-> 0,
                 img_path |-> NoValue, cropped |-> Absent,
                 processed_images |-> <<>>, ret |-> "pending", log |-> <<>>])

Submit(p, batches, backgrounds) ==
    /\ inv[p].pc = "idle"
    /\ \E b \in batches, g \in backgrounds :
           inv' = [inv EXCEPT ![p] = begin(b, g)]
    /\ UNCHANGED <<REMBG_AVAILABLE, MTCNN_AVAILABLE, masked, outfile, call>>

\* lines 117-122: img_path = remove_background(input_file); img_name
RemoveBackground(p) ==
    LET rec == inv[p]
        input_file == rec.input_files[rec.i]
        r == remove_background(REMBG_AVAILABLE, input_file, masked)
        raised == IF r.raised # None THEN r.raised
                  ELSE IF ~input_file.is_str /\ ~input_file.has_name
                       THEN "AttributeError"                  \* line 122
                       ELSE None
    IN  /\ rec.pc = "remove"
        /\ masked' = r.masked
        /\ inv' = [inv EXCEPT ![p] =
                     IF raised # None
                     THEN on_exception(logged(rec, raised), raised)
                     ELSE [rec EXCEPT !.pc = "detect", !.img_path = r.ret]]
        /\ UNCHANGED <<REMBG_AVAILABLE, MTCNN_AVAILABLE, outfile, call>>

\* Image.open(img_path) (lines 50, 53): the scratch file as it is now; a
\* file object's bytes; no file of a bare name in the working directory.
\* [raised, image]
open_image(img_path, scratch) ==
    IF img_path = scratch_path
    THEN IF scratch = Absent
         THEN [raised |-> "FileNotFoundError", image |-> Absent]
         ELSE [raised |-> None, image |-> scratch]
    ELSE IF img_path.is_str
    THEN [raised |-> "FileNotFoundError", image |-> Absent]
    ELSE IF ~img_path.has_read
    THEN [raised |-> "AttributeError", image |-> Absent]
    ELSE [raised |-> None, image |-> decode(img_path.data)]

\* lines 124-127: cropped_img = detect_face_and_crop(img_path)
DetectFace(p) ==
    LET rec == inv[p]
        opens == ~MTCNN_AVAILABLE \/ rec.img_path.is_str      \* lines 48, 52
        o == open_image(rec.img_path, masked)
    IN  /\ rec.pc = "detect"
        /\ inv' = [inv EXCEPT ![p] =
             IF opens /\ o.raised # None
             THEN on_exception(logged(rec, o.raised), o.raised)
             ELSE LET r == detect_face_and_crop(MTCNN_AVAILABLE,
                                                rec.img_path.is_str, o.image)
                  IN  IF r.ret = None
                      THEN on_no_face(logged(rec, "no face"))
                      ELSE [rec EXCEPT !.pc = "compose", !.cropped = r.image]]
        /\ UNCHANGED <<REMBG_AVAILABLE, MTCNN_AVAILABLE, masked, outfile, call>>

\* lines 128-140: resize, composite, save, append
Compose(p) ==
    LET rec == inv[p]
        input_file == rec.input_files[rec.i]
    IN  /\ rec.pc = "compose"
        /\ \E ulp \in 0..1 :
           LET rz == resize_and_center_image(rec.cropped, target_size, ulp)
               bg == IF rz.raised # None THEN rz
                     ELSE IF is_color(rec.background)
                     THEN [raised |-> None,
                           image |-> add_background(rz.image,
                                         rec.background.text, target_size)]
                     ELSE IF ~rec.background.is_str          \* line 133
                     THEN [raised |-> "TypeError"]
                     ELSE add_background1(rz.image,
                              IF rec.background.text \in DOMAIN BgDir
                              THEN BgDir[rec.background.text] ELSE Absent,
                              target_size)
               w == IF bg.raised # None
                    THEN [raised |-> bg.raised, file |-> outfile]
                    ELSE save(outfile, bg.image, input_file.disk)
           IN  /\ outfile' = w.file
               /\ inv' = [inv EXCEPT ![p] =
                    IF w.raised # None
                    THEN on_exception(logged(rec, w.raised), w.raised)
                    ELSE advance(logged(
                           [rec EXCEPT !.processed_images =
                                          Append(@, bg.image)], "ok"))]
        /\ UNCHANGED <<REMBG_AVAILABLE, MTCNN_AVAILABLE, masked, call>>

\* The inputs of the enumerated batches
Items ==
    {StrInput("anna.jpg"), Upload("ben.png", "ben"), StrInput("gone.jpg"),
     StrInput("wall.jpg"), StrInput("sliver.jpg"),
     ObjInput("cara.png", TRUE, TRUE, "cara", "torn"),
     ObjInput("dan.png", TRUE, TRUE, "ben", "refused")}

Lists(S, n) == UNION {[1..k -> S] : k \in 0..n}

Batches ==
    {[is_list |-> TRUE, items |-> l, item |-> NoValue] :
        l \in Lists(Items, MaxBatch)}
    \cup {[is_list |-> FALSE, items |-> <<>>, item |-> x] : x \in Items}

Str(text) == [is_str |-> TRUE, text |-> text]
Backgrounds ==
    {Str(<<"#", "f", "f", "0", "0", "0", "0">>), Str(<<"s", "e", "a">>),
     Str(<<"g", "o", "n", "e">>)}

NoCall == [fn |-> "none", done |-> TRUE]

\* The files as an earlier run may have left them: none yet, or the
\* scratch and output of a finished photo
Leftovers ==
    {[masked |-> Absent, outfile |-> Absent],
     [masked |-> remove("cara"), outfile |-> jpeg(decode("cara"))]}

Init ==
    /\ REMBG_AVAILABLE \in BOOLEAN
    /\ MTCNN_AVAILABLE = REMBG_AVAILABLE       \* lines 11-15: set together
    /\ \E left \in Leftovers : masked = left.masked /\ outfile = left.outfile
    /\ inv = [p \in Procs |-> Idle]
    /\ call = NoCall

\* One user: one invocation of process_image on any batch
Next ==
    \/ Submit("u1", Batches, Backgrounds)
    \/ RemoveBackground("u1")
    \/ DetectFace("u1")
    \/ Compose("u1")

Spec == Init /\ [][Next]_vars


(***************************************************************************)
(* Two sessions calling process_image at once: the steps of the two        *)
(* invocations interleave at the file operations.                          *)
(***************************************************************************)
RaceItems ==
    {StrInput("anna.jpg"), Upload("ben.png", "ben"), StrInput("wall.jpg")}

RaceBatches ==
    {[is_list |-> TRUE, items |-> l, item |-> NoValue] :
        l \in Lists(RaceItems, MaxRaceBatch) \ {<<>>}}

RaceBackgrounds == {Str(<<"#", "f", "f", "f", "f", "f", "f">>)}

InitRace ==
    /\ REMBG_AVAILABLE \in BOOLEAN
    /\ MTCNN_AVAILABLE = REMBG_AVAILABLE
    /\ masked \in Scratches
    /\ outfile = Absent
    /\ inv = [p \in Procs |-> Idle]
    /\ call = NoCall

NextRace ==
    \E p \in Procs :
        \/ Submit(p, RaceBatches, RaceBackgrounds)
        \/ RemoveBackground(p)
        \/ DetectFace(p)
        \/ Compose(p)

SpecRace == InitRace /\ [][NextRace]_vars

(***************************************************************************)
(* Properties of process_image.                                            *)
(***************************************************************************)
Called(p) == inv[p].pc # "idle"
ReturnedList(p) == inv[p].pc = "returned" /\ inv[p].ret = "list"

PhotoOf(input_file) == PhotoOfInput(input_file)

IsException(entry) == entry \notin {"ok", "no face"}

\* The indices of the items that finished, in input order
Finished(rec) ==
    SelectSeq([k \in 1..Len(rec.log) |-> k], LAMBDA k : rec.log[k] = "ok")

\* The returned images are those of the finished items, in input order
InInputOrder(rec) ==
    /\ Len(rec.processed_images) = Len(Finished(rec))
    /\ \A j \in 1..Len(rec.processed_images) :
           rec.processed_images[j].src =
               PhotoOf(rec.input_files[Finished(rec)[j]])

\* C1 (all-or-nothing batch): once face location has returned the no-face
\* sentinel for an item, process_image has returned None, whatever was
\* finished before, and no later item is processed; it returns None in no
\* other case.
C1_AllOrNothing ==
    Called("u1") =>
        LET rec == inv["u1"]
        IN  /\ \A k \in 1..Len(rec.log) :
                   rec.log[k] = "no face" =>
                       /\ k = Len(rec.log)
                       /\ rec.pc = "returned"
                       /\ rec.ret = None
            /\ rec.ret = None =>
                   (rec.log # <<>> /\ rec.log[Len(rec.log)] = "no face")

\* C1's case: None returned after an item was finished and with an item
\* left that is never processed.
C1_Witness ==
    /\ Called("u1")
    /\ inv["u1"].ret = None
    /\ Len(inv["u1"].processed_images) >= 1
    /\ Len(inv["u1"].log) < Len(inv["u1"].input_files)

\* C2 (per-item failure handling): no exception leaves process_image; an
\* item whose processing raised is followed by the next item (the item in
\* hand is always the one after those ended) and its image is not in the
\* result: the result holds the images of the finished items only; and a
\* returned list means every item of the batch was dealt with.
C2_PerItemFailure ==
    Called("u1") =>
        LET rec == inv["u1"]
        IN  /\ rec.ret # "raised"
            /\ rec.pc \in {"remove", "detect", "compose"} =>
                   (rec.i = Len(rec.log) + 1 /\ rec.i <= Len(rec.input_files))
            /\ InInputOrder(rec)
            /\ ReturnedList("u1") => Len(rec.log) = Len(rec.input_files)
            /\ \A k \in 1..Len(rec.log) :
                   (IsException(rec.log[k]) /\ rec.pc = "returned") =>
                       (rec.ret = "list" \/ k < Len(rec.log))

\* C2's case: a batch in which one item raised a missing-file error, another
\* some other exception, and a later item was finished and returned.
C2_Witness ==
    /\ ReturnedList("u1")
    /\ \E j, k, l \in 1..Len(inv["u1"].log) :
           /\ j < l /\ k < l
           /\ inv["u1"].log[j] = "FileNotFoundError"
           /\ IsException(inv["u1"].log[k])
           /\ inv["u1"].log[k] # "FileNotFoundError"
           /\ inv["u1"].log[l] = "ok"
    /\ Len(inv["u1"].processed_images) = 1

Last(seq) == seq[Len(seq)]

\* An item after the last finished one whose write failed once the file was
\* open
TornAfterLast(rec) ==
    \E k \in 1..Len(rec.log) :
        /\ k > Last(Finished(rec))
        /\ rec.log[k] = "OSError"
        /\ rec.input_files[k].disk = "torn"

\* C3 as stated (shared output path): when process_image returns a list of
\* finished images, the file at output_path holds the encoding of the last
\* image of the list, and the list holds every finished image in input
\* order.
C3_FileHoldsLastOfList ==
    (ReturnedList("u1") /\ inv["u1"].processed_images # <<>>) =>
        /\ outfile = jpeg(Last(inv["u1"].processed_images))
        /\ InInputOrder(inv["u1"])

\* C3 amended: the file holds what the latest write left: the encoding of
\* the last image of the list, unless a later item's write failed after the
\* file was opened, which leaves the file truncated; the list holds every
\* finished image in input order.
C3_SharedOutputPath ==
    (ReturnedList("u1") /\ inv["u1"].processed_images # <<>>) =>
        /\ outfile = IF TornAfterLast(inv["u1"]) THEN Torn
                     ELSE jpeg(Last(inv["u1"].processed_images))
        /\ InInputOrder(inv["u1"])

\* C3's case: two different images were finished and the file holds the
\* second only.
C3_Witness ==
    /\ ReturnedList("u1")
    /\ Len(inv["u1"].processed_images) = 2
    /\ inv["u1"].processed_images[1] # inv["u1"].processed_images[2]
    /\ outfile = jpeg(inv["u1"].processed_images[2])
    /\ outfile # jpeg(inv["u1"].processed_images[1])

Photos_of(rec) == {PhotoOf(rec.input_files[k]) : k \in 1..Len(rec.input_files)}

\* C10 (scratch-path race): an invocation running alone (the other session
\* idle) locates the face of each item in that item's own matted image, so
\* its images derive from its own inputs in order; and an image that does
\* not derive from the item in hand derives from an input of the other,
\* concurrent invocation.
C10_ScratchPathRace ==
    \A p \in Procs : Called(p) =>
        LET rec == inv[p]
            alone == \A q \in Procs \ {p} : ~Called(q)
        IN  /\ alone => InInputOrder(rec)
            /\ rec.pc = "compose" =>
                   \/ rec.cropped.src = PhotoOf(rec.input_files[rec.i])
                   \/ \E q \in Procs \ {p} :
                          Called(q) /\ rec.cropped.src \in Photos_of(inv[q])

\* C10's case: an invocation has returned an image derived from an input of
\* the other invocation and from none of its own.
C10_Witness ==
    \E p \in Procs, q \in Procs :
        /\ p # q
        /\ ReturnedList(p)
        /\ Called(q)
        /\ \E j \in 1..Len(inv[p].processed_images) :
               /\ inv[p].processed_images[j].src \in Photos_of(inv[q])
               /\ inv[p].processed_images[j].src \notin Photos_of(inv[p])

=============================================================================
